---- MODULE Spec2Model ----
(***************************************************************************)
(* A model of differential-dataflow's difference.rs: the IsZero,           *)
(* Semigroup, Monoid, Abelian and Multiply traits and their                *)
(* implementations for the built-in integers, the Wrapping integers,       *)
(* Present, tuples of arity 0 to 4 and Vec.                                *)
(*                                                                         *)
(* A type is a descriptor [t, a]: t names the type constructor and a is    *)
(* the sequence of its type arguments.  A value is a record [t, v, c]: v   *)
(* is the integer of a scalar and c the components of a tuple or the       *)
(* elements of a Vec.  A mutating method returns [val, panic]: the         *)
(* receiver as the call leaves it and whether the call ended in an         *)
(* arithmetic-overflow panic (the receiver is then as far as the call got).*)
(***************************************************************************)
EXTENDS Integers, Sequences, FiniteSets, TLC

VARIABLES
    overflow_checks,  \* the build's integer-overflow policy: TRUE panics, FALSE wraps
    ty,               \* the difference type under test
    x,                \* the receiver
    original_x,       \* a clone of the receiver taken before any call
    y,                \* a second value of the type, the operand of plus_equals
    pre,              \* the receiver before the last call
    rhs,              \* the borrowed right operand of the last call
    out,              \* what the last multiply call returned
    hist,             \* the calls made so far
    panicked,         \* a call ended in an overflow panic
    moved,            \* the receiver was consumed by multiply (not Copy)
    pool,             \* updates being consolidated
    inputs,           \* the updates the consolidation started from
    acc,              \* an accumulator that starts at zero()
    updates,          \* the updates emitted into acc
    todo,             \* the updates and retractions not yet applied to acc
    zflag             \* what the last is_zero call returned

vars ==
    << overflow_checks, ty, x, original_x, y, pre, rhs, out, hist, panicked,
       moved, pool, inputs, acc, updates, todo, zflag >>

-----------------------------------------------------------------------------
(* Bounds of the model *)

MaxOps ==
    2

MaxVecLen ==
    2

NumUpdates ==
    2

-----------------------------------------------------------------------------
(* Types and values *)

IntTypes ==
    {"i8", "i16", "u8", "w8", "w16"}

Bits(t) ==
    CASE t \in {"i8", "u8", "w8"} -> 8
      [] t \in {"i16", "w16"} -> 16

IsSigned(t) ==
    t \in {"i8", "i16", "w8", "w16"}

IsWrapping(t) ==
    t \in {"w8", "w16"}

MinOf(t) ==
    IF IsSigned(t) THEN -(2 ^ (Bits(t) - 1)) ELSE 0

MaxOf(t) ==
    IF IsSigned(t) THEN 2 ^ (Bits(t) - 1) - 1 ELSE 2 ^ Bits(t) - 1

InRange(t, n) ==
    MinOf(t) <= n /\ n <= MaxOf(t)

\* The value of type t congruent to n modulo 2^Bits(t).
Wrap(t, n) ==
    ((n - MinOf(t)) % (2 ^ Bits(t))) + MinOf(t)

Scalar(t, n) ==
    [t |-> t, v |-> n, c |-> << >>]

PresentValue ==
    [t |-> "present", v |-> 0, c |-> << >>]

Tuple(cs) ==
    [t |-> "tuple", v |-> 0, c |-> cs]

Vec(es) ==
    [t |-> "vec", v |-> 0, c |-> es]

ScalarTy(t) ==
    [t |-> t, a |-> << >>]

TupleTy(as) ==
    [t |-> "tuple", a |-> as]

VecTy(e) ==
    [t |-> "vec", a |-> <<e>>]

Ret(val, panic) ==
    [val |-> val, panic |-> panic]

-----------------------------------------------------------------------------
(* Built-in integers: builtin_implementation, builtin_abelian_implementation *)

\* A mutation of BuiltinArith: the result always wraps, whatever the build.
BuiltinArith_wrapping(a, n) ==
    Ret(Scalar(a.t, Wrap(a.t, n)), FALSE)

\* The integer arithmetic of a non-wrapping type: a result outside the type's
\* range panics where the build checks overflow and wraps where it does not.
\* A panic leaves the receiver a as it was.
BuiltinArith(a, n) ==
    IF InRange(a.t, n) THEN Ret(Scalar(a.t, n), FALSE)
    ELSE IF overflow_checks THEN Ret(a, TRUE)
    ELSE Ret(Scalar(a.t, Wrap(a.t, n)), FALSE)

builtin_is_zero(a) ==
    a.v = 0

builtin_plus_equals(a, b) ==
    BuiltinArith(a, a.v + b.v)

\* A mutation of builtin_zero: the multiplicative unit, not the additive one.
builtin_zero_one(t) ==
    Scalar(t, 1)

builtin_zero(t) ==
    Scalar(t, 0)

builtin_multiply(a, b) ==
    BuiltinArith(a, a.v * b.v)

\* A mutation of builtin_negate: the receiver is left as it is.
builtin_negate_noop(a) ==
    Ret(a, FALSE)

builtin_negate(a) ==
    BuiltinArith(a, -a.v)

-----------------------------------------------------------------------------
(* std::num::Wrapping integers: wrapping_implementation *)

wrapping_is_zero(a) ==
    a = Scalar(a.t, 0)

\* A mutation of wrapping_plus_equals: the addition of the plain integer.
wrapping_plus_equals_checked(a, b) ==
    BuiltinArith(a, a.v + b.v)

wrapping_plus_equals(a, b) ==
    Ret(Scalar(a.t, Wrap(a.t, a.v + b.v)), FALSE)

wrapping_zero(t) ==
    Scalar(t, 0)

wrapping_negate(a) ==
    Ret(Scalar(a.t, Wrap(a.t, -a.v)), FALSE)

wrapping_multiply(a, b) ==
    Ret(Scalar(a.t, Wrap(a.t, a.v * b.v)), FALSE)

-----------------------------------------------------------------------------
(* Present *)

\* A mutation of present_multiply: the receiver is returned, not the operand.
present_multiply_self(a, b) ==
    Ret(a, FALSE)

present_multiply(a, b) ==
    Ret(b, FALSE)

present_is_zero(a) ==
    FALSE

present_plus_equals(a, b) ==
    Ret(a, FALSE)

-----------------------------------------------------------------------------
(* The trait methods, dispatched on the receiver's type *)

RECURSIVE is_zero(_)
RECURSIVE plus_equals(_, _)
RECURSIVE zero(_)
RECURSIVE negate(_)
RECURSIVE multiply(_, _)

-----------------------------------------------------------------------------
(* Tuples: tuple_implementation *)

\* zero &= name.is_zero(), for component i and those after it.
RECURSIVE tuple_is_zero_from(_, _, _)
tuple_is_zero_from(a, i, z) ==
    IF i > Len(a.c) THEN z
    ELSE tuple_is_zero_from(a, i + 1, z /\ is_zero(a.c[i]))

\* A mutation of tuple_is_zero: one zero component is enough.
tuple_is_zero_any(a) ==
    \E i \in 1..Len(a.c) : is_zero(a.c[i])

tuple_is_zero(a) ==
    tuple_is_zero_from(a, 1, TRUE)

\* name.plus_equals(name2), for component i and those after it; a panic in a
\* component ends the call with the later components untouched.
RECURSIVE tuple_plus_equals_from(_, _, _)
tuple_plus_equals_from(a, b, i) ==
    IF i > Len(a.c) THEN Ret(a, FALSE)
    ELSE LET r == plus_equals(a.c[i], b.c[i])
             a2 == [a EXCEPT !.c[i] = r.val]
         IN  IF r.panic THEN Ret(a2, TRUE)
             ELSE tuple_plus_equals_from(a2, b, i + 1)

tuple_plus_equals(a, b) ==
    tuple_plus_equals_from(a, b, 1)

tuple_zero(d) ==
    Tuple([i \in 1..Len(d.a) |-> zero(d.a[i])])

RECURSIVE tuple_negate_from(_, _)
tuple_negate_from(a, i) ==
    IF i > Len(a.c) THEN Ret(a, FALSE)
    ELSE LET r == negate(a.c[i])
             a2 == [a EXCEPT !.c[i] = r.val]
         IN  IF r.panic THEN Ret(a2, TRUE)
             ELSE tuple_negate_from(a2, i + 1)

tuple_negate(a) ==
    tuple_negate_from(a, 1)

\* The receiver is consumed; a panic in a component leaves no output.
tuple_multiply(a, b) ==
    LET outs == [i \in 1..Len(a.c) |-> multiply(a.c[i], b)]
    IN  Ret(Tuple([i \in 1..Len(a.c) |-> outs[i].val]),
            \E i \in 1..Len(a.c) : outs[i].panic)

-----------------------------------------------------------------------------
(* Vec: mod vector *)

vec_is_zero(a) ==
    \A i \in 1..Len(a.c) : is_zero(a.c[i])

\* A mutation of vec_apply_updates: the update overwrites the element.
vec_apply_updates_overwrite(a, b, i) ==
    Ret([a EXCEPT !.c = [k \in 1..Len(a.c) |->
                            IF k >= i /\ k <= Len(b.c) THEN b.c[k] ELSE a.c[k]]],
        FALSE)

\* for (index, update) in rhs.iter().enumerate().take(self.len()), from
\* element i on.
RECURSIVE vec_apply_updates(_, _, _)
vec_apply_updates(a, b, i) ==
    IF i > Len(a.c) \/ i > Len(b.c) THEN Ret(a, FALSE)
    ELSE LET r == plus_equals(a.c[i], b.c[i])
             a2 == [a EXCEPT !.c[i] = r.val]
         IN  IF r.panic THEN Ret(a2, TRUE)
             ELSE vec_apply_updates(a2, b, i + 1)

\* A mutation of vec_clone_leftover: the leftover elements are dropped.
vec_clone_leftover_none(a, b) ==
    a

\* while self.len() < rhs.len() { self.push(rhs[self.len()].clone()) }
RECURSIVE vec_clone_leftover(_, _)
vec_clone_leftover(a, b) ==
    IF Len(a.c) < Len(b.c)
    THEN vec_clone_leftover([a EXCEPT !.c = Append(a.c, b.c[Len(a.c) + 1])], b)
    ELSE a

vec_plus_equals(a, b) ==
    LET r == vec_apply_updates(a, b, 1)
    IN  IF r.panic THEN r ELSE Ret(vec_clone_leftover(r.val, b), FALSE)

vec_zero(d) ==
    Vec(<< >>)

RECURSIVE vec_negate_from(_, _)
vec_negate_from(a, i) ==
    IF i > Len(a.c) THEN Ret(a, FALSE)
    ELSE LET r == negate(a.c[i])
             a2 == [a EXCEPT !.c[i] = r.val]
         IN  IF r.panic THEN Ret(a2, TRUE)
             ELSE vec_negate_from(a2, i + 1)

\* A mutation of vec_negate: only the first element is negated.
vec_negate_first(a) ==
    IF Len(a.c) = 0 THEN Ret(a, FALSE)
    ELSE LET r == negate(a.c[1])
         IN  Ret([a EXCEPT !.c[1] = r.val], r.panic)

vec_negate(a) ==
    vec_negate_from(a, 1)

vec_multiply(a, b) ==
    LET outs == [i \in 1..Len(a.c) |-> multiply(a.c[i], b)]
    IN  Ret(Vec([i \in 1..Len(a.c) |-> outs[i].val]),
            \E i \in 1..Len(a.c) : outs[i].panic)

-----------------------------------------------------------------------------
(* Trait dispatch *)

is_zero(a) ==
    CASE a.t = "present" -> present_is_zero(a)
      [] a.t = "tuple" -> tuple_is_zero(a)
      [] a.t = "vec" -> vec_is_zero(a)
      [] IsWrapping(a.t) -> wrapping_is_zero(a)
      [] OTHER -> builtin_is_zero(a)

plus_equals(a, b) ==
    CASE a.t = "present" -> present_plus_equals(a, b)
      [] a.t = "tuple" -> tuple_plus_equals(a, b)
      [] a.t = "vec" -> vec_plus_equals(a, b)
      [] IsWrapping(a.t) -> wrapping_plus_equals(a, b)
      [] OTHER -> builtin_plus_equals(a, b)

\* impl<'a, S, T: Semigroup<S>> Semigroup<&'a S> for T
plus_equals_ref(a, b) ==
    plus_equals(a, b)

zero(d) ==
    CASE d.t = "tuple" -> tuple_zero(d)
      [] d.t = "vec" -> vec_zero(d)
      [] IsWrapping(d.t) -> wrapping_zero(d.t)
      [] OTHER -> builtin_zero(d.t)

negate(a) ==
    CASE a.t = "tuple" -> tuple_negate(a)
      [] a.t = "vec" -> vec_negate(a)
      [] IsWrapping(a.t) -> wrapping_negate(a)
      [] OTHER -> builtin_negate(a)

multiply(a, b) ==
    CASE a.t = "present" -> present_multiply(a, b)
      [] a.t = "tuple" -> tuple_multiply(a, b)
      [] a.t = "vec" -> vec_multiply(a, b)
      [] IsWrapping(a.t) -> wrapping_multiply(a, b)
      [] OTHER -> builtin_multiply(a, b)

-----------------------------------------------------------------------------
(* Which traits a type implements *)

RECURSIVE IsMonoid(_)
IsMonoid(d) ==
    CASE d.t = "present" -> FALSE
      [] d.t \in {"tuple", "vec"} -> \A i \in 1..Len(d.a) : IsMonoid(d.a[i])
      [] OTHER -> TRUE

RECURSIVE IsAbelian(_)
IsAbelian(d) ==
    CASE d.t = "present" -> FALSE
      [] d.t \in {"tuple", "vec"} -> \A i \in 1..Len(d.a) : IsAbelian(d.a[i])
      [] OTHER -> IsSigned(d.t)

\* d: Multiply<T> for the scalar type named t.
RECURSIVE CanMultiply(_, _)
CanMultiply(d, t) ==
    CASE d.t = "present" -> TRUE
      [] d.t \in {"tuple", "vec"} -> \A i \in 1..Len(d.a) : CanMultiply(d.a[i], t)
      [] OTHER -> d.t = t

\* Copy types survive being passed by value to multiply; a Vec is moved.
RECURSIVE IsCopy(_)
IsCopy(d) ==
    CASE d.t = "vec" -> FALSE
      [] d.t = "tuple" -> \A i \in 1..Len(d.a) : IsCopy(d.a[i])
      [] OTHER -> TRUE

-----------------------------------------------------------------------------
(* The types and the values the model draws from *)

Types ==
    { ScalarTy("i8"), ScalarTy("i16"), ScalarTy("u8"), ScalarTy("w8"),
      ScalarTy("w16"), ScalarTy("present"),
      TupleTy(<< >>),
      TupleTy(<<ScalarTy("i8")>>),
      TupleTy(<<ScalarTy("i8"), ScalarTy("w8")>>),
      TupleTy(<<ScalarTy("present"), ScalarTy("i8")>>),
      TupleTy(<<ScalarTy("i8"), ScalarTy("i8"), ScalarTy("i8")>>),
      TupleTy(<<ScalarTy("w8"), ScalarTy("present"), ScalarTy("u8"), ScalarTy("i8")>>),
      VecTy(ScalarTy("i8")),
      VecTy(ScalarTy("w8")) }

\* The values of an integer type next to its limits and to zero.
ScalarInputs(t) ==
    {n \in {MinOf(t), MinOf(t) + 1, -1, 0, 1, MaxOf(t)} : InRange(t, n)}

\* The values a component of a tuple or an element of a Vec is drawn from.
ComponentInputs(t) ==
    {MinOf(t), 0, MaxOf(t)}

\* The sequences of the spec's and the test's examples.
ExampleVecs ==
    { <<1, 2, 3>>, <<1, 1, 1, 1>>, <<5, 5>>, <<1, 2>>, <<9, 9>> }

RECURSIVE SeqsUpTo(_, _)
SeqsUpTo(S, n) ==
    IF n = 0 THEN { << >> }
    ELSE LET shorter == SeqsUpTo(S, n - 1)
         IN  shorter \cup {Append(s, e) : s \in shorter, e \in S}

RECURSIVE Inputs(_)
\* The tuples whose component i is drawn from Inputs(as[i]).
RECURSIVE Products(_)
Products(as) ==
    IF as = << >> THEN { << >> }
    ELSE {<<h>> \o rest : h \in Inputs(Head(as)), rest \in Products(Tail(as))}

Inputs(d) ==
    CASE d.t = "present" -> {PresentValue}
      [] d.t = "tuple" -> {Tuple(cs) : cs \in Products(d.a)}
      [] d.t = "vec" ->
            {Vec(es) : es \in SeqsUpTo(Inputs(d.a[1]), MaxVecLen)}
            \cup (IF d.a[1].t = "i8"
                  THEN {Vec([i \in 1..Len(e) |-> Scalar("i8", e[i])]) : e \in ExampleVecs}
                  ELSE {})
      [] OTHER -> {Scalar(d.t, n) : n \in ComponentInputs(d.t)}

TopInputs(d) ==
    IF d.t \in IntTypes THEN {Scalar(d.t, n) : n \in ScalarInputs(d.t)}
    ELSE Inputs(d)

\* The right operands of multiply for a receiver of type d.
MulOperands(d) ==
    IF d.t = "present"
    THEN { Scalar("i8", -128), Scalar("u8", 7), PresentValue,
           Tuple(<<Scalar("w8", 1), PresentValue>>),
           Vec(<<Scalar("i8", 1), Scalar("i8", 2)>>), Vec(<< >>) }
    ELSE {Scalar(t, n) : t \in {u \in IntTypes : CanMultiply(d, u)},
                         n \in {-1, 2}} \ {Scalar("u8", -1)}

NoValue ==
    [t |-> "none", v |-> 0, c |-> << >>]

-----------------------------------------------------------------------------
(* Calls on one receiver *)

Init ==
    /\ overflow_checks \in BOOLEAN
    /\ ty \in Types
    /\ x \in TopInputs(ty)
    /\ y \in TopInputs(ty)
    /\ original_x = x
    /\ pre = x
    /\ rhs = NoValue
    /\ out = NoValue
    /\ zflag = FALSE
    /\ hist = << >>
    /\ panicked = FALSE
    /\ moved = FALSE
    /\ pool = << >>
    /\ inputs = << >>
    /\ acc = NoValue
    /\ updates = << >>
    /\ todo = {}

CanCall ==
    ~panicked /\ ~moved /\ Len(hist) < MaxOps

\* x.plus_equals(&operand), with y, the saved original_x or zero() as operand
PlusEquals ==
    /\ CanCall
    /\ \E operand \in {y, original_x} \cup (IF IsMonoid(ty) THEN {zero(ty)} ELSE {}) :
          LET r == plus_equals(x, operand)
          IN  /\ x' = r.val
              /\ panicked' = r.panic
              /\ rhs' = operand
    /\ pre' = x
    /\ hist' = Append(hist, "plus_equals")
    /\ UNCHANGED << overflow_checks, ty, original_x, y, out, zflag, moved,
                    pool, inputs, acc, updates, todo >>

\* x.negate()
Negate ==
    /\ CanCall
    /\ IsAbelian(ty)
    /\ LET r == negate(x)
       IN  /\ x' = r.val
           /\ panicked' = r.panic
    /\ pre' = x
    /\ hist' = Append(hist, "negate")
    /\ UNCHANGED << overflow_checks, ty, original_x, y, rhs, out, zflag, moved,
                    pool, inputs, acc, updates, todo >>

\* out = x.multiply(&m)
Multiply ==
    /\ CanCall
    /\ \E m \in MulOperands(ty) :
          LET r == multiply(x, m)
          IN  /\ out' = IF r.panic THEN out ELSE r.val
              /\ panicked' = r.panic
              /\ rhs' = m
    /\ moved' = ~IsCopy(ty)
    /\ pre' = x
    /\ hist' = Append(hist, "multiply")
    /\ UNCHANGED << overflow_checks, ty, x, original_x, y, zflag,
                    pool, inputs, acc, updates, todo >>

\* zflag = x.is_zero()
IsZero ==
    /\ CanCall
    /\ zflag' = is_zero(x)
    /\ pre' = x
    /\ hist' = Append(hist, "is_zero")
    /\ UNCHANGED << overflow_checks, ty, x, original_x, y, rhs, out, panicked,
                    moved, pool, inputs, acc, updates, todo >>

\* x = Monoid::zero()
Zero ==
    /\ CanCall
    /\ IsMonoid(ty)
    /\ x' = zero(ty)
    /\ pre' = x
    /\ hist' = Append(hist, "zero")
    /\ UNCHANGED << overflow_checks, ty, original_x, y, rhs, out, zflag, panicked,
                    moved, pool, inputs, acc, updates, todo >>

Next ==
    \/ PlusEquals
    \/ Negate
    \/ Multiply
    \/ IsZero
    \/ Zero

Spec ==
    Init /\ [][Next]_vars

-----------------------------------------------------------------------------
(* Helpers of the properties *)

Called(op) ==
    Len(hist) > 0 /\ hist[Len(hist)] = op

MaxInt(m, n) ==
    IF m >= n THEN m ELSE n

MinInt(m, n) ==
    IF m <= n THEN m ELSE n

Congruent(t, m, n) ==
    (m - n) % (2 ^ Bits(t)) = 0

IsBuiltinInt(t) ==
    t \in IntTypes /\ ~IsWrapping(t)

\* a + b of two scalars overflows a non-wrapping type
AddOverflows(a, b) ==
    IsBuiltinInt(a.t) /\ ~InRange(a.t, a.v + b.v)

\* v holds a non-wrapping signed integer equal to its type's minimum
RECURSIVE HasBuiltinMin(_)
HasBuiltinMin(v) ==
    IF v.t \in {"tuple", "vec"} THEN \E i \in 1..Len(v.c) : HasBuiltinMin(v.c[i])
    ELSE IsBuiltinInt(v.t) /\ IsSigned(v.t) /\ v.v = MinOf(v.t)

IntVec(t, s) ==
    Vec([i \in 1..Len(s) |-> Scalar(t, s[i])])

-----------------------------------------------------------------------------
\* C1: Vec plus_equals is the ragged extension: when the call returns, the
\* receiver has the length of the longer operand, its common prefix holds
\* the elementwise sums, its tail beyond the receiver's old length holds
\* clones of the right operand's elements, its tail beyond the right
\* operand's length is untouched, and the right operand is still the value
\* it was borrowed from.  The call panics exactly when an element sum of the
\* common prefix overflows in a build that checks overflow.  The examples
\* [1,2,3] + [1,1,1,1] = [2,3,4,1], [5,5] + [1,2] = [6,7], [] + [9,9] = [9,9].
C1_RaggedExtension ==
    (Called("plus_equals") /\ ty.t = "vec") =>
        LET L == pre.c
            R == rhs.c
            N == x.c
            common == MinInt(Len(L), Len(R))
        IN  /\ panicked <=> (overflow_checks /\ \E i \in 1..common : AddOverflows(L[i], R[i]))
            /\ rhs \in {y, original_x, Vec(<< >>)}
            /\ ~panicked =>
                /\ Len(N) = MaxInt(Len(L), Len(R))
                /\ \A i \in 1..Len(N) :
                    /\ i <= common => N[i] = plus_equals(L[i], R[i]).val
                    /\ (Len(L) < i /\ i <= Len(R)) => N[i] = R[i]
                    /\ (Len(R) < i /\ i <= Len(L)) => N[i] = L[i]
                /\ (pre = IntVec("i8", <<1, 2, 3>>) /\ rhs = IntVec("i8", <<1, 1, 1, 1>>))
                      => x = IntVec("i8", <<2, 3, 4, 1>>)
                /\ (pre = IntVec("i8", <<5, 5>>) /\ rhs = IntVec("i8", <<1, 2>>))
                      => x = IntVec("i8", <<6, 7>>)
                /\ (pre = Vec(<< >>) /\ rhs = IntVec("i8", <<9, 9>>))
                      => x = IntVec("i8", <<9, 9>>)

C1_Witness ==
    /\ Called("plus_equals")
    /\ pre = IntVec("i8", <<1, 2, 3>>)
    /\ rhs = IntVec("i8", <<1, 1, 1, 1>>)
    /\ x = IntVec("i8", <<2, 3, 4, 1>>)

-----------------------------------------------------------------------------
\* C2: for every Monoid type, the value zero() constructs is_zero, and
\* x.plus_equals(&zero()) returns without a panic and leaves x as it was.
C2_ZeroIsIdentity ==
    /\ Called("zero") => is_zero(x)
    /\ (hist = <<"zero", "is_zero">>) => zflag
    /\ (Called("plus_equals") /\ IsMonoid(ty) /\ rhs = zero(ty)) =>
          (~panicked /\ x = pre)

C2_Witness ==
    /\ hist = <<"negate", "plus_equals">>
    /\ ty.t = "tuple"
    /\ Len(ty.a) > 1
    /\ rhs = zero(ty)
    /\ ~is_zero(x)
    /\ x = pre

-----------------------------------------------------------------------------
\* C3 as claimed: for every Abelian value, the minimum included, negate and
\* then plus_equals(&original_x) run to completion and leave is_zero(x).
C3_NegateCancelsAlways ==
    /\ (hist = <<"negate">>) => ~panicked
    /\ (hist = <<"negate", "plus_equals">> /\ rhs = original_x) =>
          (~panicked /\ is_zero(x))

\* C3 amended: negate followed by plus_equals(&original_x) leaves is_zero(x)
\* whenever the two calls return; they return for every value in a build
\* that does not check overflow and for every value none of whose
\* non-wrapping signed integers is the minimum of its type; in a build that
\* checks overflow, negate of a value holding such a minimum panics.
C3_NegateCancels ==
    /\ (hist = <<"negate", "plus_equals">> /\ rhs = original_x /\ ~panicked) =>
          is_zero(x)
    /\ (hist = <<"negate">>) =>
          (panicked <=> (overflow_checks /\ HasBuiltinMin(original_x)))
    /\ (hist = <<"negate", "plus_equals">> /\ rhs = original_x) => ~panicked

C3_Witness ==
    /\ hist = <<"negate", "plus_equals">>
    /\ rhs = original_x
    /\ original_x = Vec(<<Scalar("i8", -128), Scalar("i8", 127)>>)
    /\ x = Vec(<<Scalar("i8", 0), Scalar("i8", 0)>>)

-----------------------------------------------------------------------------
\* C5: every value for which is_zero is true is an additive identity:
\* x.plus_equals(&z) with is_zero(z) leaves x equal to what it was.
C5_IsZeroOnlyIdentity ==
    (Called("plus_equals") /\ is_zero(rhs)) => (~panicked /\ x = pre)

-----------------------------------------------------------------------------
\* C6: on a Wrapping integer of width w, plus_equals and negate never panic,
\* in either build, and store the value of the type congruent modulo 2^w to
\* the mathematical sum or negation; MAX plus 1 is MIN.
C6_WrappingWraps ==
    (ty.t \in IntTypes /\ IsWrapping(ty.t)) =>
        /\ ~panicked
        /\ InRange(ty.t, x.v)
        /\ Called("plus_equals") =>
              /\ Congruent(ty.t, x.v, pre.v + rhs.v)
              /\ (pre.v = MaxOf(ty.t) /\ rhs.v = 1) => x.v = MinOf(ty.t)
        /\ Called("negate") => Congruent(ty.t, x.v, -pre.v)

C6_Witness ==
    /\ ty = ScalarTy("w16")
    /\ overflow_checks
    /\ Called("plus_equals")
    /\ pre.v = 32767
    /\ rhs.v = 1
    /\ x.v = -32768

-----------------------------------------------------------------------------
\* C7: a Present stays Present and never is_zero whatever plus_equals calls
\* were made, and multiply(Present, &v) returns a value equal to v, v being
\* one of the values offered and so unchanged.
C7_PresentStaysPresent ==
    (ty.t = "present") =>
        /\ x = PresentValue
        /\ ~is_zero(x)
        /\ ~panicked
        /\ Called("is_zero") => ~zflag
        /\ Called("multiply") => (out = rhs /\ rhs \in MulOperands(ty))

C7_Witness ==
    /\ ty.t = "present"
    /\ hist = <<"plus_equals", "multiply">>
    /\ out = Vec(<<Scalar("i8", 1), Scalar("i8", 2)>>)

-----------------------------------------------------------------------------
\* C8: the tuple methods are the componentwise lifting for arities 0 to 4:
\* is_zero is the conjunction of the components' is_zero; when plus_equals,
\* negate or multiply returns, component i of the result is that method's
\* result on component i (multiply with the one right operand); and the
\* tuple's call panics exactly when a component's call does.
C8_TupleComponentwise ==
    (ty.t = "tuple") =>
        LET n == Len(ty.a)
        IN  /\ Len(x.c) = n
            /\ is_zero(x) <=> \A i \in 1..n : is_zero(x.c[i])
            /\ Called("is_zero") => (zflag <=> \A i \in 1..n : is_zero(pre.c[i]))
            /\ Called("plus_equals") =>
                  /\ panicked <=> \E i \in 1..n : plus_equals(pre.c[i], rhs.c[i]).panic
                  /\ ~panicked =>
                        \A i \in 1..n : x.c[i] = plus_equals(pre.c[i], rhs.c[i]).val
            /\ Called("negate") =>
                  /\ panicked <=> \E i \in 1..n : negate(pre.c[i]).panic
                  /\ ~panicked => \A i \in 1..n : x.c[i] = negate(pre.c[i]).val
            /\ Called("multiply") =>
                  /\ panicked <=> \E i \in 1..n : multiply(pre.c[i], rhs).panic
                  /\ ~panicked =>
                        /\ Len(out.c) = n
                        /\ \A i \in 1..n : out.c[i] = multiply(pre.c[i], rhs).val

C8_Witness ==
    /\ ty.t = "tuple"
    /\ Len(ty.a) = 4
    /\ Called("plus_equals")
    /\ ~panicked
    /\ \A i \in {1, 3, 4} : x.c[i] # pre.c[i]

-----------------------------------------------------------------------------
\* The mathematical result of the last call on a scalar receiver, and what
\* the call produced.
MathResult ==
    CASE Called("plus_equals") -> pre.v + rhs.v
      [] Called("negate") -> -pre.v
      [] Called("multiply") -> pre.v * rhs.v

Produced ==
    IF Called("multiply") THEN out ELSE x

Arithmetic ==
    /\ ty.t \in IntTypes
    /\ ~IsWrapping(ty.t)
    /\ (Called("plus_equals") \/ Called("negate") \/ Called("multiply"))

\* C9 as claimed: on a non-wrapping integer, a plus_equals, negate or
\* multiply whose mathematical result is outside the type's range panics.
C9_OverflowAlwaysTraps ==
    (Arithmetic /\ ~InRange(ty.t, MathResult)) => panicked

\* C9 amended: on a non-wrapping integer, a plus_equals, negate or multiply
\* whose mathematical result is outside the type's range panics, leaving the
\* receiver as it was, in a build that checks overflow, and in a build that
\* does not, returns and stores or returns the result wrapped modulo 2^w;
\* a result inside the range is stored or returned as it is.
C9_OverflowFollowsBuild ==
    Arithmetic =>
        IF InRange(ty.t, MathResult)
        THEN ~panicked /\ Produced = Scalar(ty.t, MathResult)
        ELSE IF overflow_checks
        THEN panicked /\ x = pre
        ELSE /\ ~panicked
             /\ InRange(ty.t, Produced.v)
             /\ Congruent(ty.t, Produced.v, MathResult)

C9_Witness ==
    /\ ty = ScalarTy("i8")
    /\ ~overflow_checks
    /\ Called("plus_equals")
    /\ pre.v = 127
    /\ rhs.v = 1
    /\ x.v = -128
    /\ ~panicked

-----------------------------------------------------------------------------
(* Consolidation: three updates are added together in any order and any    *)
(* grouping, each addition consuming its right operand.                    *)

MergeTypes ==
    { ScalarTy("i8"), ScalarTy("u8"), ScalarTy("w8"), ScalarTy("present"),
      TupleTy(<<ScalarTy("i8"), ScalarTy("w8")>>),
      TupleTy(<<ScalarTy("present"), ScalarTy("u8")>>),
      VecTy(ScalarTy("i8")),
      VecTy(ScalarTy("w8")) }

MergeInputs(d) ==
    IF d.t = "vec"
    THEN {Vec(es) : es \in SeqsUpTo({Scalar(d.a[1].t, 1), Scalar(d.a[1].t, MaxOf(d.a[1].t))},
                                    MaxVecLen)}
    ELSE TopInputs(d)

Unused ==
    /\ x = NoValue
    /\ original_x = NoValue
    /\ y = NoValue
    /\ pre = NoValue
    /\ rhs = NoValue
    /\ out = NoValue
    /\ zflag = FALSE
    /\ hist = << >>
    /\ moved = FALSE

InitMerge ==
    /\ overflow_checks \in BOOLEAN
    /\ ty \in MergeTypes
    /\ \E a \in MergeInputs(ty), b \in MergeInputs(ty), c \in MergeInputs(ty) :
          inputs = <<a, b, c>>
    /\ pool = inputs
    /\ panicked = FALSE
    /\ Unused
    /\ acc = NoValue
    /\ updates = << >>
    /\ todo = {}

RemoveAt(s, j) ==
    SubSeq(s, 1, j - 1) \o SubSeq(s, j + 1, Len(s))

\* pool[i].plus_equals(&pool[j]); pool[j] is then dropped, unless the call
\* panicked
Merge ==
    /\ ~panicked
    /\ \E i \in 1..Len(pool), j \in 1..Len(pool) :
          /\ i # j
          /\ LET r == plus_equals(pool[i], pool[j])
             IN  /\ pool' = IF r.panic THEN [pool EXCEPT ![i] = r.val]
                              ELSE RemoveAt([pool EXCEPT ![i] = r.val], j)
                 /\ panicked' = r.panic
    /\ UNCHANGED << overflow_checks, ty, x, original_x, y, pre, rhs, out, zflag,
                    hist, moved, inputs, acc, updates, todo >>

NextMerge ==
    Merge

SpecMerge ==
    InitMerge /\ [][NextMerge]_vars

\* s[1] with s[2], s[3], ... added into it in that order
RECURSIVE LeftFoldFrom(_, _, _)
LeftFoldFrom(a, s, i) ==
    IF i > Len(s) THEN Ret(a, FALSE)
    ELSE LET r == plus_equals(a, s[i])
         IN  IF r.panic THEN r ELSE LeftFoldFrom(r.val, s, i + 1)

LeftFold(s) ==
    LeftFoldFrom(s[1], s, 2)

Orders(s) ==
    {[i \in 1..Len(s) |-> s[p[i]]] : p \in Permutations(1..Len(s))}

RECURSIVE HasBuiltinInt(_)
HasBuiltinInt(d) ==
    IF d.t \in {"tuple", "vec"} THEN \E i \in 1..Len(d.a) : HasBuiltinInt(d.a[i])
    ELSE IsBuiltinInt(d.t)

-----------------------------------------------------------------------------
\* C4 as claimed: accumulating x, y and z in any order and any grouping
\* gives what (x + y) + z gives: the same value, or a panic where that one
\* panics.
C4_AnyOrderSameOutcome ==
    LET ref == LeftFold(inputs)
    IN  /\ panicked => ref.panic
        /\ (Len(pool) = 1 /\ ~panicked) => (~ref.panic /\ pool[1] = ref.val)

\* C4 amended: any two orders and groupings of accumulating x, y and z that
\* both return yield equal results; an accumulation fails to return only by
\* an overflow panic, which needs a non-wrapping integer component and a
\* build that checks overflow, and which one order can meet and another not.
C4_AnyOrderSameResult ==
    /\ panicked => (overflow_checks /\ HasBuiltinInt(ty))
    /\ (Len(pool) = 1 /\ ~panicked) =>
          \A s \in Orders(inputs) :
              LET ref == LeftFold(s)
              IN  ~ref.panic => pool[1] = ref.val

C4_Witness ==
    /\ Len(pool) = 1
    /\ ~panicked
    /\ ty = VecTy(ScalarTy("w8"))
    /\ Len(inputs[1].c) = 0
    /\ Len(inputs[2].c) = 2
    /\ Len(inputs[3].c) = 1
    /\ pool[1] = Vec(<<Scalar("w8", -128), Scalar("w8", 127)>>)

-----------------------------------------------------------------------------
(* Retraction: an accumulator that starts at zero() receives every update  *)
(* and the negation of every update, in any order.                         *)

RetractTypes ==
    { VecTy(ScalarTy("w8")),
      TupleTy(<<ScalarTy("w8"), ScalarTy("w16")>>) }

RetractInputs(d) ==
    IF d.t = "vec"
    THEN {Vec(es) : es \in SeqsUpTo({Scalar(d.a[1].t, 1), Scalar(d.a[1].t, MinOf(d.a[1].t))},
                                    MaxVecLen)}
    ELSE Inputs(d)

InitRetract ==
    /\ overflow_checks \in BOOLEAN
    /\ ty \in RetractTypes
    /\ updates \in [1..NumUpdates -> RetractInputs(ty)]
    /\ acc = zero(ty)
    /\ todo = (1..NumUpdates) \X {"update", "retraction"}
    /\ panicked = FALSE
    /\ Unused
    /\ pool = << >>
    /\ inputs = << >>

\* acc.plus_equals(&&updates[k])
ApplyUpdate ==
    /\ ~panicked
    /\ \E k \in 1..NumUpdates :
          /\ <<k, "update">> \in todo
          /\ LET r == plus_equals_ref(acc, updates[k])
             IN  /\ acc' = r.val
                 /\ panicked' = r.panic
          /\ todo' = todo \ {<<k, "update">>}
    /\ UNCHANGED << overflow_checks, ty, x, original_x, y, pre, rhs, out, zflag,
                    hist, moved, pool, inputs, updates >>

\* let mut n = updates[k].clone(); n.negate(); acc.plus_equals(&n)
ApplyRetraction ==
    /\ ~panicked
    /\ \E k \in 1..NumUpdates :
          /\ <<k, "retraction">> \in todo
          /\ LET n == negate(updates[k])
                 r == plus_equals(acc, n.val)
             IN  /\ acc' = IF n.panic THEN acc ELSE r.val
                 /\ panicked' = (n.panic \/ r.panic)
          /\ todo' = todo \ {<<k, "retraction">>}
    /\ UNCHANGED << overflow_checks, ty, x, original_x, y, pre, rhs, out, zflag,
                    hist, moved, pool, inputs, updates >>

NextRetract ==
    \/ ApplyUpdate
    \/ ApplyRetraction

SpecRetract ==
    InitRetract /\ [][NextRetract]_vars

-----------------------------------------------------------------------------
\* C10: no update or retraction panics, and once every update and the
\* negation of every update has been added to the accumulator, in whatever
\* order, is_zero(acc) is true (acc itself may be a non-empty Vec of zeros,
\* which is not zero()).
C10_RetractionCancels ==
    /\ ~panicked
    /\ (todo = {}) => is_zero(acc)

C10_Witness ==
    /\ todo = {}
    /\ is_zero(acc)
    /\ acc # zero(ty)
    /\ ty.t = "vec"
    /\ Len(acc.c) = MaxVecLen
    /\ \E k \in 1..NumUpdates : Len(updates[k].c) < MaxVecLen

====
